---- MODULE Spec2Model ----
(***************************************************************************)
(* State-machine model of nova's os-simple-tenant-usage v3 plugin          *)
(* (nova/api/openstack/compute/plugins/v3/simple_tenant_usage.py).         *)
(*                                                                         *)
(* Representation                                                          *)
(*   - A point in time is an integer number of microseconds since an       *)
(*     arbitrary epoch; a timedelta is the integer difference of two.      *)
(*   - A nullable timestamp is a record [rep, t]; rep = "None" is Python's *)
(*     None, "datetime" a datetime object, "str" a string in the layout    *)
(*     "%Y-%m-%d %H:%M:%S.%f" (the layout _hours_for parses).              *)
(*   - Hours are real numbers in the code.  They are kept exact here as    *)
(*     integers counted in units of 1/HoursScale hour, so that             *)
(*     seconds / 3600.0 with seconds = whole + microseconds / 100000.0     *)
(*     is  whole * 100000 + microseconds  units.                           *)
(***************************************************************************)
EXTENDS Integers, Sequences, FiniteSets

\* ------------------------------------------------------------------ bounds
MaxTick == 3
MaxInstances == 2

\* --------------------------------------------------------------- constants
\* dt.microseconds counts millionths of a second (datetime.timedelta)
MicrosPerSecond == 1000000
\* the divisor the code applies to dt.microseconds
MicroDivisor == 100000
SecondsPerHour == 3600
HoursPerDay == 24
SecondsPerDay == SecondsPerHour * HoursPerDay
\* one hour, in the integer unit hours are counted in
HoursScale == SecondsPerHour * MicroDivisor

\* Sampled instants: every half second from 0 to MaxTick half seconds.
Tick == MicrosPerSecond \div 2
Time == {k * Tick : k \in 0..MaxTick}

NoneTs == [rep |-> "None", t |-> 0]
Dt(t) == [rep |-> "datetime", t |-> t]
StrTs(t) == [rep |-> "str", t |-> t]
IsNone(ts) == ts.rep = "None"

\* datetime.timedelta's normalised fields of a difference d (microseconds):
\* days may be negative, seconds and microseconds never are.
td_microseconds(d) == d % MicrosPerSecond
td_seconds(d) == (d \div MicrosPerSecond) % SecondsPerDay
td_days(d) == (d \div MicrosPerSecond) \div SecondsPerDay

Max(a, b) == IF a >= b THEN a ELSE b
Min(a, b) == IF a <= b THEN a ELSE b

\* ------------------------------------------------------------- _hours_for
\* seconds * MicroDivisor, for the timedelta dt = stop - start
hours_seconds_bad_sign(start, stop) ==
    LET dt == start - stop
    IN  (td_days(dt) * SecondsPerHour * HoursPerDay + td_seconds(dt)) * MicroDivisor
            + td_microseconds(dt)

hours_seconds(start, stop) ==
    LET dt == stop - start
    IN  (td_days(dt) * SecondsPerHour * HoursPerDay + td_seconds(dt)) * MicroDivisor
            + td_microseconds(dt)

\* the early "return 0" of a terminated-before-window instance dropped
hours_guard_terminated_never(terminated_at, period_start) == FALSE

hours_guard_terminated(terminated_at, period_start) ==
    ~IsNone(terminated_at) /\ terminated_at.t < period_start

hours_guard_launched(launched_at, period_stop) ==
    ~IsNone(launched_at) /\ launched_at.t > period_stop

\* parse_strtime turns a "str" timestamp into the datetime it denotes; both
\* representations carry the instant in .t, so the comparisons below read .t.
_hours_for(instance, period_start, period_stop) ==
    LET launched_at == instance.launched_at
        terminated_at == instance.terminated_at
    IN  IF hours_guard_terminated(terminated_at, period_start) THEN 0
        ELSE IF hours_guard_launched(launched_at, period_stop) THEN 0
        ELSE IF ~IsNone(launched_at)
             THEN LET start == Max(launched_at.t, period_start)
                      stop == IF ~IsNone(terminated_at)
                              THEN Min(period_stop, terminated_at.t)
                              ELSE period_stop
                  IN  hours_seconds(start, stop)
             ELSE 0

\* ------------------------------------------------------------ the domain
Tenants == {"t1", "t2"}
NoTenant == "None"
TypeIds == {"a", "b"}

NoFlavor ==
    [name |-> "None", memory_mb |-> 0, root_gb |-> 0, ephemeral_gb |-> 0, vcpus |-> 0]
\* the shape held in an instance's system_metadata
EmbeddedShape ==
    [name |-> "m1.tiny", memory_mb |-> 2, root_gb |-> 1, ephemeral_gb |-> 1, vcpus |-> 1]
\* the shape the flavor catalog holds for a type id
CatalogShape ==
    [name |-> "m1.small", memory_mb |-> 4, root_gb |-> 2, ephemeral_gb |-> 0, vcpus |-> 2]

VALID_DATETIME_FORMAT == <<"%Y-%m-%dT%H:%M:%S", "%Y-%m-%dT%H:%M:%S.%f", "%Y-%m-%d %H:%M:%S.%f">>

VARIABLES
    req,            \* the request: handler, id, query string, authorization
    db,             \* the instances the compute API holds
    catalog,        \* the flavor catalog: type id -> shape, for the ids it knows
    clock,          \* the latest reading of timeutils.utcnow()
    pc,             \* "idle", "loop" (inside _tenant_usages_for_period), "done"
    parsed,         \* what _parse_datetime returned for start and for end
    nowRead,        \* the handler's  now = timeutils.utcnow()
    lookupCalls,    \* the calls made to compute_api.get_active_by_window
    catalogQueries, \* the calls made to compute_api.get_instance_type
    run,            \* _tenant_usages_for_period's frame: arguments and locals
    response,       \* what the caller receives
    hcall           \* one call of _hours_for: arguments and result

vars == <<req, db, catalog, clock, pc, parsed, nowRead, lookupCalls,
          catalogQueries, run, response, hcall>>

\* ------------------------------------------------------------ _get_flavor
\* flavors.extract_flavor(instance): the embedded shape, or KeyError
extract_flavor_raises(instance) == instance.flavor = NoFlavor

\* line 92 left out: a found flavor is not remembered
cache_store_skip(flavors_cache, flavor_type, it_ref) == flavors_cache

\* flavors_cache[flavor_type] = it_ref
cache_store(flavors_cache, flavor_type, it_ref) ==
    [k \in DOMAIN flavors_cache \cup {flavor_type} |->
        IF k = flavor_type THEN it_ref ELSE flavors_cache[k]]

\* compute_api.get_instance_type(context, flavor_type) against the catalog:
\* the shape, or FlavorNotFound
get_instance_type_found(cat, flavor_type) == flavor_type \in DOMAIN cat

\* Result: exc ("None" or "KeyError"), the flavor (NoFlavor for None), the
\* cache as left by the call, and the catalog queries the call made.
_get_flavor(cat, instance, flavors_cache) ==
    IF ~extract_flavor_raises(instance)
    THEN [exc |-> "None", flavor |-> instance.flavor,
          cache |-> flavors_cache, queries |-> <<>>]
    ELSE IF ~instance.deleted
    THEN [exc |-> "KeyError", flavor |-> NoFlavor,
          cache |-> flavors_cache, queries |-> <<>>]
    ELSE LET flavor_type == instance.instance_type_id
         IN  IF flavor_type \in DOMAIN flavors_cache
             THEN [exc |-> "None", flavor |-> flavors_cache[flavor_type],
                   cache |-> flavors_cache, queries |-> <<>>]
             ELSE IF get_instance_type_found(cat, flavor_type)
             THEN [exc |-> "None", flavor |-> cat[flavor_type],
                   cache |-> cache_store(flavors_cache, flavor_type, cat[flavor_type]),
                   queries |-> <<[id |-> flavor_type, found |-> TRUE]>>]
             ELSE [exc |-> "None", flavor |-> NoFlavor,
                   cache |-> flavors_cache,
                   queries |-> <<[id |-> flavor_type, found |-> FALSE]>>]

\* ---------------------------------------------- _tenant_usages_for_period
\* "if not flavor" never taken
flavor_missing_never(flavor) == FALSE

\* if not flavor: continue
flavor_missing(flavor) == flavor = NoFlavor

\* "not in rval" always taken: a fresh summary for every instance
summary_missing_always(rval, tenant_id) == TRUE

\* if info['tenant_id'] not in rval
summary_missing(rval, tenant_id) == tenant_id \notin DOMAIN rval

new_summary(tenant_id, detailed, period_start, period_stop) ==
    IF detailed
    THEN [tenant_id |-> tenant_id, server_usages |-> <<>>,
          total_local_gb_usage |-> 0, total_vcpus_usage |-> 0,
          total_memory_mb_usage |-> 0, total_hours |-> 0,
          start |-> period_start, stop |-> period_stop]
    ELSE [tenant_id |-> tenant_id,
          total_local_gb_usage |-> 0, total_vcpus_usage |-> 0,
          total_memory_mb_usage |-> 0, total_hours |-> 0,
          start |-> period_start, stop |-> period_stop]

\* info['state']
info_state(instance) ==
    IF ~IsNone(instance.terminated_at) THEN "terminated" ELSE instance.vm_state

\* ended_at - started_at, or now - started_at: Python raises TypeError unless
\* both operands of the subtraction are datetime objects
uptime_raises(instance) ==
    \/ instance.launched_at.rep # "datetime"
    \/ info_state(instance) = "terminated" /\ instance.terminated_at.rep # "datetime"

uptime(instance, now) ==
    LET delta == IF info_state(instance) = "terminated"
                 THEN instance.terminated_at.t - instance.launched_at.t
                 ELSE now - instance.launched_at.t
    IN  td_days(delta) * HoursPerDay * SecondsPerHour + td_seconds(delta)

build_info(instance, flavor, hours, now) ==
    [hours |-> hours,
     instance_id |-> instance.uuid,
     name |-> instance.display_name,
     memory_mb |-> flavor.memory_mb,
     local_gb |-> flavor.root_gb + flavor.ephemeral_gb,
     vcpus |-> flavor.vcpus,
     tenant_id |-> instance.project_id,
     flavor |-> flavor.name,
     started_at |-> instance.launched_at,
     ended_at |-> instance.terminated_at,
     state |-> info_state(instance),
     uptime |-> uptime(instance, now)]

\* the += of the four totals, and the append to server_usages
accumulate(summary, info, detailed) ==
    LET s == [summary EXCEPT
                !.total_local_gb_usage = @ + info.local_gb * info.hours,
                !.total_vcpus_usage = @ + info.vcpus * info.hours,
                !.total_memory_mb_usage = @ + info.memory_mb * info.hours,
                !.total_hours = @ + info.hours]
    IN  IF detailed THEN [s EXCEPT !.server_usages = Append(@, info)] ELSE s

\* rval after the instance's info went into its tenant's summary
rval_with(rval, info, detailed, period_start, period_stop) ==
    LET t == info.tenant_id
        base == IF summary_missing(rval, t)
                THEN new_summary(t, detailed, period_start, period_stop)
                ELSE rval[t]
    IN  [k \in DOMAIN rval \cup {t} |->
            IF k = t THEN accumulate(base, info, detailed) ELSE rval[k]]

NoResponse == [status |-> 0, error |-> "None", body |-> {}]
Raised(status, error) == [status |-> status, error |-> error, body |-> {}]
EmptyRun ==
    [period_start |-> 0, period_stop |-> 0, tenant_id |-> NoTenant,
     detailed |-> FALSE, instances |-> <<>>, idx |-> 1,
     rval |-> <<>>, flavors |-> <<>>]

\* One pass of "for instance in instances".  An exception the plugin does
\* not catch ends the request.
ProcessInstance ==
    /\ pc = "loop"
    /\ run.idx <= Len(run.instances)
    /\ LET instance == run.instances[run.idx]
           hours == _hours_for(instance, run.period_start, run.period_stop)
           got == _get_flavor(catalog, instance, run.flavors)
       IN  /\ catalogQueries' = catalogQueries \o got.queries
           /\ IF got.exc # "None"
              THEN /\ pc' = "done"
                   /\ response' = Raised(500, got.exc)
                   /\ run' = [run EXCEPT !.flavors = got.cache]
                   /\ clock' = clock
              ELSE IF flavor_missing(got.flavor)
              THEN /\ run' = [run EXCEPT !.flavors = got.cache, !.idx = @ + 1]
                   /\ UNCHANGED <<pc, response, clock>>
              ELSE \E now \in Time :
                   /\ now >= clock
                   /\ clock' = now
                   /\ IF uptime_raises(instance)
                      THEN /\ pc' = "done"
                           /\ response' = Raised(500, "TypeError")
                           /\ run' = [run EXCEPT !.flavors = got.cache]
                      ELSE /\ run' = [run EXCEPT
                                  !.flavors = got.cache,
                                  !.idx = @ + 1,
                                  !.rval = rval_with(@,
                                      build_info(instance, got.flavor, hours, now),
                                      run.detailed, run.period_start, run.period_stop)]
                           /\ UNCHANGED <<pc, response>>
    /\ UNCHANGED <<req, db, catalog, parsed, nowRead, lookupCalls, hcall>>

\* return rval.values(), then the handler's own return
Return ==
    /\ pc = "loop"
    /\ run.idx > Len(run.instances)
    /\ pc' = "done"
    /\ LET usages == {run.rval[k] : k \in DOMAIN run.rval}
       IN  IF req.handler = "index"
           THEN response' = [status |-> 200, error |-> "None", body |-> usages]
           ELSE IF usages = {}
           THEN response' = [status |-> 200, error |-> "None", body |-> {}]
           ELSE \E usage \in usages :
                    response' = [status |-> 200, error |-> "None", body |-> {usage}]
    /\ UNCHANGED <<req, db, catalog, clock, parsed, nowRead, lookupCalls,
                   catalogQueries, run, hcall>>

\* ------------------------------------------------------- the time window
\* A query-string value: layout "absent" (no such parameter), one of the
\* three layouts of VALID_DATETIME_FORMAT, or "bad" (any other text); t is
\* the instant a well-formed text denotes.
parse_strtime_ok(dtstr, format) == dtstr.layout = format

RECURSIVE try_formats(_, _)
try_formats(dtstr, i) ==
    IF i > Len(VALID_DATETIME_FORMAT) THEN NoneTs
    ELSE IF parse_strtime_ok(dtstr, VALID_DATETIME_FORMAT[i]) THEN Dt(dtstr.t)
    ELSE try_formats(dtstr, i + 1)

\* now: what timeutils.utcnow() returns if it is called.  The isinstance
\* branch (a datetime passed in) is never taken for a query-string value.
_parse_datetime(dtstr, now) ==
    IF dtstr.layout = "absent" THEN Dt(now) ELSE try_formats(dtstr, 1)

\* equal start and end let through
range_invalid_lax(period_start, period_stop) == period_start > period_stop

\* if not period_start < period_stop
range_invalid(period_start, period_stop) == ~(period_start < period_stop)

\* nS, nE: the clock as read for an absent start, an absent end
_get_datetime_range(r, nS, nE) ==
    LET period_start == _parse_datetime(r.start, nS)
        period_stop == _parse_datetime(r.end, nE)
    IN  IF IsNone(period_start)
        THEN [exc |-> "HTTPBadRequest", start |-> period_start, stop |-> NoneTs,
              detailed |-> FALSE]
        ELSE IF IsNone(period_stop)
        THEN [exc |-> "HTTPBadRequest", start |-> period_start, stop |-> period_stop,
              detailed |-> FALSE]
        ELSE IF range_invalid(period_start.t, period_stop.t)
        THEN [exc |-> "HTTPBadRequest", start |-> period_start, stop |-> period_stop,
              detailed |-> FALSE]
        ELSE [exc |-> "None", start |-> period_start, stop |-> period_stop,
              detailed |-> (r.detailed = "1")]

\* the stop bound left as requested
clip_never(period_stop, now) == period_stop

\* if period_stop > now: period_stop = now
clip(period_stop, now) == IF period_stop > now THEN now ELSE period_stop

\* compute_api.get_active_by_window: the instances of the tenant asked for
\* (of every tenant when tenant_id is None), in the order the API holds them.
\* No instance is withheld for lying outside the window: _hours_for itself
\* provides for those.
get_active_by_window(instances, period_start, period_stop, tenant_id) ==
    SelectSeq(instances, LAMBDA i : tenant_id = NoTenant \/ i.project_id = tenant_id)

\* The body index and show share: authorization, _get_datetime_range, the
\* clipping of period_stop, and the entry into _tenant_usages_for_period up
\* to its loop.
Handle(tenant_id, force_detailed) ==
    IF ~req.authorized
    THEN /\ pc' = "done"
         /\ response' = Raised(403, "Forbidden")
         /\ UNCHANGED <<clock, parsed, nowRead, lookupCalls, run>>
    ELSE \E nS, nE, nN \in Time :
         LET range == _get_datetime_range(req, nS, nE)
         IN  /\ clock <= nS /\ nS <= nE /\ nE <= nN
             \* the clock is read only where the code reads it
             /\ req.start.layout # "absent" => nS = clock
             /\ (req.end.layout # "absent" \/ IsNone(range.start)) => nE = nS
             /\ range.exc # "None" => nN = nE
             /\ clock' = nN
             /\ parsed' = [start |-> range.start, stop |-> range.stop]
             /\ IF range.exc # "None"
                THEN /\ pc' = "done"
                     /\ response' = Raised(400, range.exc)
                     /\ UNCHANGED <<nowRead, lookupCalls, run>>
                ELSE LET period_start == range.start.t
                         period_stop == clip(range.stop.t, nN)
                         detailed == force_detailed \/ range.detailed
                     IN  /\ nowRead' = Dt(nN)
                         /\ lookupCalls' = Append(lookupCalls,
                                [start |-> period_start, stop |-> period_stop,
                                 tenant_id |-> tenant_id])
                         /\ run' = [period_start |-> period_start,
                                    period_stop |-> period_stop,
                                    tenant_id |-> tenant_id,
                                    detailed |-> detailed,
                                    instances |-> get_active_by_window(db,
                                        period_start, period_stop, tenant_id),
                                    idx |-> 1, rval |-> <<>>, flavors |-> <<>>]
                         /\ pc' = "loop"
                         /\ UNCHANGED response

index ==
    /\ pc = "idle"
    /\ req.handler = "index"
    /\ Handle(NoTenant, FALSE)
    /\ UNCHANGED <<req, db, catalog, catalogQueries, hcall>>

show ==
    /\ pc = "idle"
    /\ req.handler = "show"
    /\ Handle(req.id, TRUE)
    /\ UNCHANGED <<req, db, catalog, catalogQueries, hcall>>

Next == index \/ show \/ ProcessInstance \/ Return

\* One call of _hours_for on the arguments drawn at the start.
ApplyHours ==
    /\ ~hcall.done
    /\ hcall' = [hcall EXCEPT
           !.done = TRUE,
           !.result = _hours_for(hcall.instance, hcall.period_start, hcall.period_stop)]
    /\ UNCHANGED <<req, db, catalog, clock, pc, parsed, nowRead, lookupCalls,
                   catalogQueries, run, response>>

NextHours == ApplyHours

\* ---------------------------------------------------------- initial states
Timestamps == {NoneTs} \cup {Dt(t) : t \in Time} \cup {StrTs(t) : t \in Time}

\* the texts a query string can carry: the first layout has no fraction
\* field, so it can only denote whole seconds
DtStrs ==
    {[layout |-> "absent", t |-> 0], [layout |-> "bad", t |-> 0]}
    \cup {[layout |-> VALID_DATETIME_FORMAT[1], t |-> t] :
            t \in {u \in Time : u % MicrosPerSecond = 0}}
    \cup {[layout |-> VALID_DATETIME_FORMAT[2], t |-> t] : t \in Time}
    \cup {[layout |-> VALID_DATETIME_FORMAT[3], t |-> t] : t \in Time}

Instance(project_id, launched_at, terminated_at, flavor, deleted, type_id) ==
    [uuid |-> 0, display_name |-> "vm", project_id |-> project_id,
     launched_at |-> launched_at, terminated_at |-> terminated_at,
     vm_state |-> "active", flavor |-> flavor, deleted |-> deleted,
     instance_type_id |-> type_id]

\* the uuid of an instance is its place in the database
WithUuids(protos) == [i \in DOMAIN protos |-> [protos[i] EXCEPT !.uuid = i]]

SeqsUpTo(S, n) == UNION {[1..k -> S] : k \in 0..n}

\* never launched; running since 0; ran from Tick to 2 Ticks; running since
\* Tick, the launch time held as text
Lifecycles ==
    {<<NoneTs, NoneTs>>, <<Dt(0), NoneTs>>, <<Dt(Tick), Dt(2 * Tick)>>,
     <<StrTs(Tick), NoneTs>>}

\* embedded shape; none and deleted (type known / unknown to the catalog);
\* none and not deleted
FlavorConfigs ==
    {<<EmbeddedShape, FALSE, "a">>, <<NoFlavor, TRUE, "a">>,
     <<NoFlavor, TRUE, "b">>, <<NoFlavor, FALSE, "a">>}

Protos ==
    {Instance(p, l[1], l[2], f[1], f[2], f[3]) :
        p \in Tenants, l \in Lifecycles, f \in FlavorConfigs}

TheCatalog == [k \in {"a"} |-> CatalogShape]

IdleHours ==
    [instance |-> [launched_at |-> NoneTs, terminated_at |-> NoneTs],
     period_start |-> 0, period_stop |-> 0, done |-> TRUE, result |-> 0]

InitCommon ==
    /\ pc = "idle"
    /\ parsed = [start |-> NoneTs, stop |-> NoneTs]
    /\ nowRead = NoneTs
    /\ lookupCalls = <<>>
    /\ catalogQueries = <<>>
    /\ run = EmptyRun
    /\ response = NoResponse
    /\ catalog = TheCatalog

\* every request, against a database of at most one instance
InitReq ==
    /\ InitCommon
    /\ hcall = IdleHours
    /\ clock \in Time
    /\ req \in
         {[handler |-> "index", id |-> NoTenant, start |-> s, end |-> e,
           detailed |-> d, authorized |-> a] :
             s \in DtStrs, e \in DtStrs, d \in {"0", "1"}, a \in BOOLEAN}
         \cup
         {[handler |-> "show", id |-> "t1", start |-> s, end |-> e,
           detailed |-> "0", authorized |-> a] :
             s \in DtStrs, e \in DtStrs, a \in BOOLEAN}
    /\ db \in {<<>>,
               WithUuids(<<Instance("t1", Dt(0), NoneTs, EmbeddedShape, FALSE, "a")>>)}

\* every database of at most MaxInstances instances, under two windows
InitRun ==
    /\ InitCommon
    /\ hcall = IdleHours
    /\ clock = MaxTick * Tick
    /\ req \in
         {[handler |-> h[1], id |-> h[2],
           start |-> [layout |-> VALID_DATETIME_FORMAT[1], t |-> 0],
           end |-> e, detailed |-> "1", authorized |-> TRUE] :
             h \in {<<"index", NoTenant>>, <<"show", "t1">>},
             e \in {[layout |-> VALID_DATETIME_FORMAT[2], t |-> 3 * Tick],
                    [layout |-> VALID_DATETIME_FORMAT[1], t |-> 2 * Tick]}}
    /\ db \in {WithUuids(q) : q \in SeqsUpTo(Protos, MaxInstances)}

\* every call of _hours_for
InitHours ==
    /\ InitCommon
    /\ clock = 0
    /\ req = [handler |-> "none", id |-> NoTenant,
              start |-> [layout |-> "absent", t |-> 0],
              end |-> [layout |-> "absent", t |-> 0],
              detailed |-> "0", authorized |-> FALSE]
    /\ db = <<>>
    /\ hcall \in
         {[instance |-> [launched_at |-> l, terminated_at |-> t],
           period_start |-> ps, period_stop |-> pe, done |-> FALSE, result |-> 0] :
             l \in Timestamps, t \in Timestamps, ps \in Time, pe \in Time}

SpecReq == InitReq /\ [][Next]_vars
SpecRun == InitRun /\ [][Next]_vars
SpecHours == InitHours /\ [][NextHours]_vars

\* _hours_for's calls together with the report runs
InitUsage == InitHours \/ InitRun
NextUsage == Next \/ ApplyHours
SpecUsage == InitUsage /\ [][NextUsage]_vars

\* ------------------------------------------------- vocabulary of the claims
RECURSIVE SumSeq(_)
SumSeq(s) == IF s = <<>> THEN 0 ELSE s[1] + SumSeq(Tail(s))

\* the flavor of the instance resolves: embedded, or deleted with a type id
\* the catalog knows
Resolves(i) ==
    \/ i.flavor # NoFlavor
    \/ i.deleted /\ i.instance_type_id \in DOMAIN catalog

\* a deleted instance without embedded flavor whose catalog lookup fails
LookupFails(i) ==
    i.flavor = NoFlavor /\ i.deleted /\ i.instance_type_id \notin DOMAIN catalog

ShapeOf(i) == IF i.flavor # NoFlavor THEN i.flavor ELSE catalog[i.instance_type_id]

\* the uuids, in processing order, of tenant t's processed instances whose
\* flavor resolved
CountedIds(t) ==
    LET keep == SelectSeq(SubSeq(run.instances, 1, run.idx - 1),
                          LAMBDA i : i.project_id = t /\ Resolves(i))
    IN  [k \in DOMAIN keep |-> keep[k].uuid]

InstanceOfUuid(u) == CHOOSE i \in {run.instances[k] : k \in DOMAIN run.instances} : i.uuid = u

SummaryConsistent(s) ==
    LET su == s.server_usages
    IN  /\ s.total_hours = SumSeq([k \in DOMAIN su |-> su[k].hours])
        /\ s.total_vcpus_usage = SumSeq([k \in DOMAIN su |-> su[k].vcpus * su[k].hours])
        /\ s.total_memory_mb_usage =
               SumSeq([k \in DOMAIN su |-> su[k].memory_mb * su[k].hours])
        /\ s.total_local_gb_usage =
               SumSeq([k \in DOMAIN su |-> su[k].local_gb * su[k].hours])
        /\ [k \in DOMAIN su |-> su[k].instance_id] = CountedIds(s.tenant_id)
        /\ \A k \in DOMAIN su :
               LET f == ShapeOf(InstanceOfUuid(su[k].instance_id))
               IN  /\ su[k].local_gb = f.root_gb + f.ephemeral_gb
                   /\ su[k].vcpus = f.vcpus
                   /\ su[k].memory_mb = f.memory_mb

\* C1: in a detailed run, at every point of the loop and in the response,
\* each tenant summary's four totals are the sums of hours, vcpus*hours,
\* memory_mb*hours and (root_gb+ephemeral_gb)*hours over its server_usages,
\* and server_usages lists, once each and in order, exactly the tenant's
\* processed instances whose flavor resolved; a tenant without such an
\* instance has no summary.
Thm_C1 ==
    (pc \in {"loop", "done"} /\ run.detailed) =>
        /\ \A t \in DOMAIN run.rval :
               run.rval[t].tenant_id = t /\ SummaryConsistent(run.rval[t])
        /\ \A t \in Tenants : t \notin DOMAIN run.rval => CountedIds(t) = <<>>
        /\ response.status = 200 => \A s \in response.body : SummaryConsistent(s)

Wit_C1 ==
    /\ pc = "done"
    /\ response.status = 200
    /\ \E s \in response.body :
           Len(s.server_usages) = 2 /\ s.server_usages[1].hours > 0
           /\ s.total_hours > s.server_usages[1].hours

TerminatedBefore(c) ==
    ~IsNone(c.instance.terminated_at) /\ c.instance.terminated_at.t < c.period_start
LaunchedAfter(c) ==
    ~IsNone(c.instance.launched_at) /\ c.instance.launched_at.t > c.period_stop

\* C2: _hours_for returns 0 for an instance terminated before period_start
\* or launched after period_stop.
Thm_C2 ==
    (hcall.done /\ (TerminatedBefore(hcall) \/ LaunchedAfter(hcall))) => hcall.result = 0

Wit_C2 ==
    /\ hcall.done
    /\ TerminatedBefore(hcall)
    /\ ~IsNone(hcall.instance.launched_at)
    /\ ~LaunchedAfter(hcall)
    /\ hcall.result = 0

\* C3: for period_start < period_stop and an instance launched at or before
\* period_start and never terminated, _hours_for returns exactly
\* (period_stop - period_start) seconds / 3600.  In the unit of hcall.result
\* (1/HoursScale hour) one microsecond is MicroDivisor/MicrosPerSecond units.
Cex_C3 ==
    (/\ hcall.done
     /\ hcall.period_start < hcall.period_stop
     /\ ~IsNone(hcall.instance.launched_at)
     /\ hcall.instance.launched_at.t <= hcall.period_start
     /\ IsNone(hcall.instance.terminated_at))
    => hcall.result * (MicrosPerSecond \div MicroDivisor)
           = hcall.period_stop - hcall.period_start

BothParsed == ~IsNone(parsed.start) /\ ~IsNone(parsed.stop)

\* C4: a request whose parsed start is not strictly before its parsed end
\* gets a 400 and get_active_by_window is never called for it.
Thm_C4 ==
    (pc # "idle" /\ BothParsed /\ ~(parsed.start.t < parsed.stop.t)) =>
        /\ pc = "done"
        /\ response.status = 400
        /\ lookupCalls = <<>>

Wit_C4 ==
    /\ pc = "done"
    /\ req.handler = "show"
    /\ BothParsed
    /\ parsed.start.t = parsed.stop.t
    /\ response.status = 400

\* C5: the window passed to get_active_by_window and recorded in every
\* summary satisfies period_start < period_stop.
Cex_C5 ==
    /\ \A k \in DOMAIN lookupCalls : lookupCalls[k].start < lookupCalls[k].stop
    /\ \A t \in DOMAIN run.rval : run.rval[t].start < run.rval[t].stop

Accepted == pc # "idle" /\ req.authorized /\ BothParsed /\ parsed.start.t < parsed.stop.t

\* C6: every accepted request reaches get_active_by_window (the clipping
\* raises nothing) with a stop that never exceeds the handler's reading of
\* the clock, and that equals the reading when the requested end is later.
Thm_C6 ==
    Accepted =>
        /\ Len(lookupCalls) = 1
        /\ ~IsNone(nowRead)
        /\ lookupCalls[1].stop <= nowRead.t
        /\ parsed.stop.t > nowRead.t => lookupCalls[1].stop = nowRead.t
        /\ response.status # 400

Wit_C6 ==
    /\ pc = "done"
    /\ response.status = 200
    /\ parsed.stop.t > nowRead.t
    /\ lookupCalls[1].stop = nowRead.t
    /\ lookupCalls[1].start < lookupCalls[1].stop

AtInstance == pc = "loop" /\ run.idx <= Len(run.instances)

AppearsIn(u, rval) ==
    \E t \in DOMAIN rval :
        \E k \in DOMAIN rval[t].server_usages : rval[t].server_usages[k].instance_id = u

\* C7: the pass over a deleted instance without embedded flavor whose
\* catalog lookup fails changes neither the summaries nor the flavor cache
\* and raises nothing, so the loop goes on from the state it would be in
\* had the instance been absent; such an instance is in no server_usages.
Thm_C7 ==
    /\ [][(AtInstance /\ LookupFails(run.instances[run.idx])) =>
            /\ pc' = "loop"
            /\ response' = response
            /\ run'.rval = run.rval
            /\ run'.flavors = run.flavors
            /\ run'.idx = run.idx + 1]_vars
    /\ [](\A k \in DOMAIN run.instances :
            LookupFails(run.instances[k]) => ~AppearsIn(run.instances[k].uuid, run.rval))

Wit_C7 ==
    /\ pc = "done"
    /\ response.status = 200
    /\ Len(run.instances) = 2
    /\ LookupFails(run.instances[1])
    /\ run.instances[2].project_id = run.instances[1].project_id
    /\ AppearsIn(run.instances[2].uuid, run.rval)

QueriesOf(id) == SelectSeq(catalogQueries, LAMBDA q : q.id = id)

\* C8 as stated: get_instance_type is called at most once per
\* instance_type_id in a run, whether the first call found the flavor or not.
Cex_C8 == \A id \in TypeIds : Len(QueriesOf(id)) <= 1

\* C8 as amended: once get_instance_type has found an instance_type_id it is
\* not called for that id again in the run (a FlavorNotFound is not cached:
\* every later instance of that id calls it again); the cache starts empty.
Thm_C8 ==
    /\ \A j \in DOMAIN catalogQueries : \A i \in 1..(j - 1) :
           catalogQueries[i].id = catalogQueries[j].id => ~catalogQueries[i].found
    /\ (pc = "loop" /\ run.idx = 1) => (DOMAIN run.flavors = {} /\ catalogQueries = <<>>)

Wit_C8 ==
    /\ pc = "done"
    /\ response.status = 200
    /\ Len(run.instances) = 2
    /\ \A k \in DOMAIN run.instances :
           /\ run.instances[k].flavor = NoFlavor
           /\ run.instances[k].deleted
           /\ run.instances[k].instance_type_id = "a"
    /\ catalogQueries = <<[id |-> "a", found |-> TRUE]>>
    /\ \E t \in DOMAIN run.rval : Len(run.rval[t].server_usages) = 2

\* C9: no run is ended by an exception at an instance whose launch timestamp
\* is absent and whose flavor resolves.
Cex_C9 ==
    ~(/\ pc = "done"
      /\ response.status = 500
      /\ run.idx <= Len(run.instances)
      /\ IsNone(run.instances[run.idx].launched_at)
      /\ Resolves(run.instances[run.idx]))

WellFormed(i) ==
    IsNone(i.launched_at) \/ IsNone(i.terminated_at) \/ i.launched_at.t <= i.terminated_at.t

Totals(s) ==
    <<s.total_hours, s.total_vcpus_usage, s.total_memory_mb_usage, s.total_local_gb_usage>>

TotalsBefore(t) == IF t \in DOMAIN run.rval THEN Totals(run.rval[t]) ELSE <<0, 0, 0, 0>>

\* C10: for period_start < period_stop and an instance not launched after
\* its termination, _hours_for returns a value >= 0; and in a run over such
\* a window and such instances every total of every tenant is >= 0 and no
\* step of the loop lowers one.
Thm_C10 ==
    /\ []((/\ hcall.done
           /\ hcall.period_start < hcall.period_stop
           /\ WellFormed(hcall.instance)) => hcall.result >= 0)
    /\ [][(/\ run.period_start < run.period_stop
           /\ \A k \in DOMAIN run.instances : WellFormed(run.instances[k])) =>
            \A t \in DOMAIN run'.rval : \A n \in 1..4 :
                /\ TotalsBefore(t)[n] >= 0
                /\ Totals(run'.rval[t])[n] >= TotalsBefore(t)[n]]_vars

Wit_C10 ==
    /\ pc = "loop"
    /\ run.idx = 3
    /\ run.period_start < run.period_stop
    /\ \E t \in DOMAIN run.rval :
           run.rval[t].total_memory_mb_usage > run.rval[t].total_hours
           /\ run.rval[t].total_hours > 0

====
